---- MODULE Spec2Model ----
(***************************************************************************)
(* Track Up map orientation: js/track_up_mode.js and js/simple_track_up.js *)
(*                                                                         *)
(* Each file is an IIFE with its own module state that drives the same     *)
(* page elements (the Leaflet map container, the overlay controls, the     *)
(* #track-up-status text).  The variable `script` says which of the files  *)
(* the page has loaded; the handlers of a file run only on its page.       *)
(*                                                                         *)
(* Numbers.  Headings and angles are whole degrees.  Speeds are in tenths  *)
(* of a metre per second (0.3 m/s is 3).  Latitudes and longitudes are in  *)
(* units of 0.00001 degree (0.0001 degree is 10).  A CSS scale factor is   *)
(* the fraction num/den (1.1 is 11/10, 1/1.1 is 10/11).                    *)
(***************************************************************************)
EXTENDS Integers, FiniteSets, Sequences, TLC

(***************************************************************************)
(* JavaScript values                                                       *)
(***************************************************************************)
Null == [kind |-> "null"]

NaN == [kind |-> "nan"]

Num(v) == [kind |-> "num", val |-> v]

\* an identifier that no declaration introduces: reading it, or assigning to
\* it under 'use strict', raises a ReferenceError
Undeclared == [kind |-> "undeclared"]

Coords(lat, lng) == [kind |-> "obj", latitude |-> lat, longitude |-> lng]

Abs(x) == IF x < 0 THEN -x ELSE x

\* the % operator: the result takes the sign of the dividend
JsMod(a, n) == IF a >= 0 THEN a % n ELSE -((-a) % n)

\* heading !== null && typeof heading === 'number' && !isNaN(heading)
IsValidNumber(v) == v.kind = "num"

\* value is truthy (null, NaN and 0 are not)
Truthy(v) == v.kind = "obj" \/ (v.kind = "num" /\ v.val # 0)

\* Math.atan2(y, x) * 180 / Math.PI, for the directions whose angle is a whole
\* number of degrees (every pair of Positions below gives one of them)
Atan2Deg(y, x) ==
    CASE y = 0 /\ x >= 0 -> 0
      [] y = 0 /\ x < 0 -> 180
      [] x = 0 /\ y > 0 -> 90
      [] x = 0 /\ y < 0 -> -90
      [] x > 0 /\ y = x -> 45
      [] x > 0 /\ y = -x -> -45
      [] x < 0 /\ y = -x -> 135
      [] x < 0 /\ y = x -> -135

(***************************************************************************)
(* Bounds and input sets                                                   *)
(***************************************************************************)
\* the platform hands out geolocation watch ids 0..MaxWatchId
MaxWatchId == 1

\* the platform hands out interval ids 1..MaxTimerId
MaxTimerId == 1

WatchIds == 0..MaxWatchId

TimerIds == 1..MaxTimerId

\* coords.heading values the platform reports
Headings == {0, 3, 10, 11, 50, 80, 359, 360}

\* coords.speed values, tenths of m/s
SpeedInputs == {Null, Num(2), Num(4), Num(8), Num(20)}

\* a latitude (54.73561 degrees north) whose cosine is tan(30 degrees) to within
\* 1e-8, so that the bearings between the Positions are whole degrees
BaseLatitude == 5473561

\* coords.latitude / coords.longitude: three corners of a square and its centre
Positions ==
    {<<BaseLatitude, 0>>, <<BaseLatitude, 20>>, <<BaseLatitude + 20, 0>>,
     <<BaseLatitude + 10, 10>>}

\* event.alpha of a deviceorientation event
AlphaInputs == {Null, Num(0), Num(90), Num(313)}

Sample(h, sp, p) == [heading |-> h, speed |-> sp, latitude |-> p[1], longitude |-> p[2]]

\* the position samples the platform delivers: every heading at walking speed
\* from two places, one heading at every speed, and no heading (null at every
\* speed, NaN when slow and when fast) from every place
Samples ==
    {Sample(Num(h), Num(20), p) : h \in Headings,
                                  p \in {<<BaseLatitude, 0>>, <<BaseLatitude, 20>>}}
        \cup {Sample(Num(50), sp, <<BaseLatitude, 0>>) : sp \in SpeedInputs}
        \cup {Sample(Null, sp, p) : sp \in SpeedInputs, p \in Positions}
        \cup {Sample(NaN, sp, p) : sp \in {Num(2), Num(20)}, p \in Positions}

(***************************************************************************)
(* element.style.transform                                                 *)
(***************************************************************************)
\* the style was never assigned: the empty string
Unset == [kind |-> "unset", rot |-> 0, num |-> 1, den |-> 1]

\* 'none'
None == [kind |-> "none", rot |-> 0, num |-> 1, den |-> 1]

\* `rotate(${r}deg) scale(${num/den})`
RotateScale(r, n, d) == [kind |-> "rotate", rot |-> r, num |-> n, den |-> d]

\* 'none !important' is not a value of the transform property: the CSSOM setter
\* parses the assigned string, fails, and leaves the declaration as it was
NoneImportant == [kind |-> "invalid", rot |-> 0, num |-> 1, den |-> 1]

\* element.style.transform = value
SetTransform(old, value) == IF value.kind = "invalid" THEN old ELSE value

\* the transform draws the element as if it had none
IsIdentity(t) ==
    \/ t.kind \in {"unset", "none"}
    \/ t.kind = "rotate" /\ t.rot % 360 = 0 /\ t.num = t.den

\* statusElement.textContent
Status(text, n) == [text |-> text, n |-> n]


(***************************************************************************)
(* State                                                                   *)
(***************************************************************************)
VARIABLES
    script,          \* the file the page has loaded
    tum,             \* module state of track_up_mode.js
    stu,             \* module state of simple_track_up.js
    checked,         \* #track-up-toggle .checked
    dom,             \* style.transform of the map container and the overlays
    status,          \* #track-up-status .textContent
    watches,         \* ids of the registered geolocation watches
    timers,          \* ids of the running intervals
    ev,              \* the handler that ran last, with its inputs
    scenario,        \* how much of ScenarioStream the samples so far have matched
    gpsEstablished,  \* a position sample has given a GPS heading
    gps              \* module state of the direct GPS system, its requests and timers

vars == <<script, tum, stu, checked, dom, status, watches, timers, ev, scenario,
          gpsEstablished, gps>>

Scripts == {"track_up_mode", "simple_track_up", "direct_gps"}

Event(op) == [op |-> op, heading |-> Null, speed |-> Null, position |-> Null,
              alpha |-> Null, checked |-> FALSE, threw |-> FALSE]

\* the sample stream of the spec's scenario: headings 10, 11, 50 at 2.0 m/s
ScenarioStream == <<Num(10), Num(11), Num(50)>>

ScenarioStep(sc, c) ==
    IF sc \in 0..(Len(ScenarioStream) - 1) /\ c.heading = ScenarioStream[sc + 1]
          /\ c.speed = Num(20)
    THEN sc + 1
    ELSE -1

(***************************************************************************)
(* js/track_up_mode.js                                                     *)
(***************************************************************************)
JitterThreshold == 3

GpsSpeedThreshold == 3

MoveSpeedThreshold == 5

MoveDeltaThreshold == 1

ScaleNum == 11

ScaleDen == 10

\* let trackUpMode = false; ... let headingUpdateInterval = null; lastPosition
\* has no declaration anywhere in the file
TumDeclared ==
    [trackUpMode |-> FALSE, currentHeading |-> 0, mapRotationEnabled |-> FALSE,
     watchId |-> Null, lastValidHeading |-> 0, headingUpdateInterval |-> Null,
     lastPosition |-> Undeclared]

\* the page before any script styles it; a custom location indicator and a popup
\* are on the map, a default marker icon may be
DomLoaded(markerPresent) ==
    [map |-> Unset, zoom |-> Unset, attribution |-> Unset, custom |-> Unset,
     popup |-> Unset, marker |-> Unset, markerPresent |-> markerPresent,
     trackUpContainer |-> Unset, controls |-> Unset]

updateTrackUpStatus(text, n) == Status(text, n)

\* the selectors of elementsToCounterRotate, on the elements of the page
CounterRotate(d, value) ==
    [d EXCEPT !.zoom = SetTransform(@, value),
              !.attribution = SetTransform(@, value),
              !.custom = SetTransform(@, value),
              !.marker = IF d.markerPresent THEN SetTransform(@, value) ELSE @]

\* updateMapRotation, turning the overlays the same way as the surface
updateMapRotation_SameSign(t, d) ==
    IF ~t.trackUpMode THEN d
    ELSE LET rotationAngle == -t.currentHeading
             rotated == [d EXCEPT !.map = SetTransform(@,
                             RotateScale(rotationAngle, ScaleNum, ScaleDen))]
         IN CounterRotate(rotated, RotateScale(rotationAngle, ScaleDen, ScaleNum))

updateMapRotation(t, d) ==
    IF ~t.trackUpMode THEN d
    ELSE LET rotationAngle == -t.currentHeading
             rotated == [d EXCEPT !.map = SetTransform(@,
                             RotateScale(rotationAngle, ScaleNum, ScaleDen))]
         IN CounterRotate(rotated, RotateScale(-rotationAngle, ScaleDen, ScaleNum))

updateUIElementsRotation(d, counterRotation, counterScale) ==
    [d EXCEPT
        \* '.leaflet-control', '.leaflet-popup'
        !.zoom = SetTransform(@, RotateScale(counterRotation, counterScale, 1)),
        !.attribution = SetTransform(@, RotateScale(counterRotation, counterScale, 1)),
        !.popup = SetTransform(@, RotateScale(counterRotation, counterScale, 1)),
        \* '.custom-location-indicator, .custom-user-location'
        !.custom = SetTransform(@, NoneImportant),
        !.trackUpContainer = SetTransform(@, None),
        !.controls = SetTransform(@, None)]

\* '.leaflet-marker-icon:not(.custom-location-indicator):not(.custom-user-location)'
removeDefaultLocationMarkers(d) ==
    [d EXCEPT !.markerPresent = FALSE, !.marker = Unset]

\* resetMapRotation, handing the surface's old angle on as the counter-rotation
resetMapRotation_OldAngle(d) ==
    updateUIElementsRotation([d EXCEPT !.map = SetTransform(@, None)], d.map.rot, 1)

resetMapRotation(d) ==
    updateUIElementsRotation([d EXCEPT !.map = SetTransform(@, None)], 0, 1)

\* updateTrackUpMode, starting each activation from a heading of 0
updateTrackUpMode_ResetsHeading(t, d, s, tms, id) ==
    LET t0 == [t EXCEPT !.currentHeading = IF t.trackUpMode THEN 0 ELSE @]
        start == t.trackUpMode /\ t.headingUpdateInterval.kind = "null"
        stop == ~t.trackUpMode /\ t.headingUpdateInterval.kind = "num"
    IN [tum |-> [t0 EXCEPT !.mapRotationEnabled = t.trackUpMode,
                           !.headingUpdateInterval =
                               IF start THEN Num(id) ELSE IF t.trackUpMode THEN @ ELSE Null],
        dom |-> IF t.trackUpMode
                THEN updateMapRotation(t0, removeDefaultLocationMarkers(d))
                ELSE resetMapRotation(d),
        status |-> updateTrackUpStatus(IF t.trackUpMode THEN "Track Up Active"
                                                        ELSE "North Up", 0),
        timers |-> IF start THEN tms \cup {id}
                   ELSE IF stop THEN tms \ {t.headingUpdateInterval.val} ELSE tms]

\* id: what setInterval returns if it is called
updateTrackUpMode(t, d, s, tms, id) ==
    IF t.trackUpMode
    THEN LET start == t.headingUpdateInterval.kind = "null"
             t1 == [t EXCEPT !.mapRotationEnabled = TRUE,
                             !.headingUpdateInterval = IF start THEN Num(id) ELSE @]
         IN [tum |-> t1,
             dom |-> updateMapRotation(t1, removeDefaultLocationMarkers(d)),
             status |-> updateTrackUpStatus("Track Up Active", 0),
             timers |-> IF start THEN tms \cup {id} ELSE tms]
    ELSE LET stop == t.headingUpdateInterval.kind = "num"
         IN [tum |-> [t EXCEPT !.mapRotationEnabled = FALSE,
                               !.headingUpdateInterval = Null],
             dom |-> resetMapRotation(d),
             status |-> updateTrackUpStatus("North Up", 0),
             timers |-> IF stop THEN tms \ {t.headingUpdateInterval.val} ELSE tms]

\* speed === null || speed > threshold
SpeedNullOrAbove(speed, threshold) ==
    speed.kind = "null" \/ (speed.kind = "num" /\ speed.val > threshold)

\* GpsHeading with the speed test of Method 2 (speed > 0.5)
GpsHeading_MoveThreshold(t, c) ==
    IF SpeedNullOrAbove(c.speed, MoveSpeedThreshold)
    THEN [newHeading |-> c.heading.val, lastValidHeading |-> c.heading.val,
          derived |-> TRUE]
    ELSE [newHeading |-> t.currentHeading, lastValidHeading |-> t.lastValidHeading,
          derived |-> FALSE]

\* GpsHeading, taking the last valid heading (Method 3) when the device is slow
GpsHeading_FallsBack(t, c) ==
    IF SpeedNullOrAbove(c.speed, GpsSpeedThreshold)
    THEN [newHeading |-> c.heading.val, lastValidHeading |-> c.heading.val,
          derived |-> TRUE]
    ELSE [newHeading |-> t.lastValidHeading, lastValidHeading |-> t.lastValidHeading,
          derived |-> FALSE]

\* Method 1: the GPS heading, if the device moves
GpsHeading(t, c) ==
    IF SpeedNullOrAbove(c.speed, GpsSpeedThreshold)
    THEN [newHeading |-> c.heading.val, lastValidHeading |-> c.heading.val,
          derived |-> TRUE]
    ELSE [newHeading |-> t.currentHeading, lastValidHeading |-> t.lastValidHeading,
          derived |-> FALSE]

\* Math.atan2(sin(dLng) cos(lat2), cos(lat1) sin(lat2) - sin(lat1) cos(lat2) cos(dLng))
\* in degrees. Between Positions the deltas are at most 0.0002 degree and the
\* cosine of the latitude is tan(30 degrees), so the value is within 0.0002
\* degree of atan2(deltaLng * tan(30 degrees), deltaLat), which is listed here
Bearing(lat1, lng1, lat2, lng2) ==
    LET deltaLat == lat2 - lat1
        deltaLng == lng2 - lng1
    IN CASE deltaLng = 0 /\ deltaLat >= 0 -> 0
         [] deltaLng = 0 /\ deltaLat < 0 -> 180
         [] deltaLat = 0 /\ deltaLng > 0 -> 90
         [] deltaLat = 0 /\ deltaLng < 0 -> -90
         [] deltaLat > 0 /\ deltaLng = deltaLat -> 30
         [] deltaLat > 0 /\ deltaLng = -deltaLat -> -30
         [] deltaLat < 0 /\ deltaLng = -deltaLat -> 150
         [] deltaLat < 0 /\ deltaLng = deltaLat -> -150

\* Methods 2 and 3: the heading of the movement, or the last valid heading
MovementHeading(t, c) ==
    IF Truthy(t.lastPosition) /\ SpeedNullOrAbove(c.speed, MoveSpeedThreshold)
    THEN LET deltaLat == c.latitude - t.lastPosition.latitude
             deltaLng == c.longitude - t.lastPosition.longitude
         IN IF Abs(deltaLat) > MoveDeltaThreshold \/ Abs(deltaLng) > MoveDeltaThreshold
            THEN LET bearing == Bearing(t.lastPosition.latitude, t.lastPosition.longitude,
                                        c.latitude, c.longitude)
                     normalized == JsMod(bearing + 360, 360)
                 IN [newHeading |-> normalized, lastValidHeading |-> normalized,
                     derived |-> TRUE]
            ELSE [newHeading |-> t.currentHeading, lastValidHeading |-> t.lastValidHeading,
                  derived |-> FALSE]
    ELSE [newHeading |-> t.lastValidHeading, lastValidHeading |-> t.lastValidHeading,
          derived |-> FALSE]

\* Math.abs(newHeading - currentHeading) > 3
JitterGate(newHeading, currentHeading) == Abs(newHeading - currentHeading) > JitterThreshold

\* the success callback of watchPosition
WatchPositionResult(t, d, s, c) ==
    IF ~IsValidNumber(c.heading) /\ t.lastPosition.kind = "undeclared"
    THEN \* `if (lastPosition && ...` raises the ReferenceError
         [tum |-> t, dom |-> d, status |-> s, threw |-> TRUE, established |-> FALSE]
    ELSE LET est == IF IsValidNumber(c.heading) THEN GpsHeading(t, c)
                                                ELSE MovementHeading(t, c)
             commit == JitterGate(est.newHeading, t.currentHeading)
             t1 == [t EXCEPT !.lastValidHeading = est.lastValidHeading,
                             !.currentHeading = IF commit THEN est.newHeading ELSE @]
             show == commit /\ t.trackUpMode
             \* `lastPosition = {...}` raises the ReferenceError under 'use strict'
             storeThrows == t.lastPosition.kind = "undeclared"
         IN [tum |-> IF storeThrows THEN t1
                     ELSE [t1 EXCEPT !.lastPosition = Coords(c.latitude, c.longitude)],
             dom |-> IF show THEN updateMapRotation(t1, d) ELSE d,
             status |-> IF show THEN updateTrackUpStatus("Heading", t1.currentHeading) ELSE s,
             threw |-> storeThrows,
             established |-> est.derived]

\* WatchErrorResult, also resetting the heading to 0
WatchErrorResult_ResetsHeading(t, d, s, ws) ==
    [tum |-> [t EXCEPT !.currentHeading = 0], dom |-> d,
     status |-> updateTrackUpStatus("GPS Error", 0), watches |-> ws]

\* WatchErrorResult, also giving up the watch
WatchErrorResult_ClearsWatch(t, d, s, ws) ==
    [tum |-> [t EXCEPT !.watchId = Null], dom |-> d,
     status |-> updateTrackUpStatus("GPS Error", 0),
     watches |-> IF t.watchId.kind = "num" THEN ws \ {t.watchId.val} ELSE ws]

\* the error callback of watchPosition
WatchErrorResult(t, d, s, ws) ==
    [tum |-> t, dom |-> d, status |-> updateTrackUpStatus("GPS Error", 0), watches |-> ws]

\* trackUpMode && event.alpha !== null && currentHeading === 0
CompassApplies(t, alpha) == t.trackUpMode /\ alpha.kind # "null" /\ t.currentHeading = 0

\* the deviceorientation listener
DeviceOrientationResult(t, d, alpha) ==
    IF CompassApplies(t, alpha)
    THEN LET t1 == [t EXCEPT !.currentHeading = JsMod(360 - alpha.val, 360)]
         IN [tum |-> t1, dom |-> updateMapRotation(t1, d)]
    ELSE [tum |-> t, dom |-> d]

\* the setInterval callback; currentHeading is never null
IntervalResult(t, d) ==
    IF t.trackUpMode THEN removeDefaultLocationMarkers(updateMapRotation(t, d)) ELSE d


\* cleanup(): what it leaves of the module state, the watches and the timers
CleanupResult(t, d, ws, tms) ==
    [tum |-> [t EXCEPT !.watchId = Null, !.headingUpdateInterval = Null],
     watches |-> IF t.watchId.kind = "num" THEN ws \ {t.watchId.val} ELSE ws,
     timers |-> IF Truthy(t.headingUpdateInterval)
                THEN tms \ {t.headingUpdateInterval.val} ELSE tms,
     dom |-> resetMapRotation(d)]

(***************************************************************************)
(* js/simple_track_up.js                                                   *)
(***************************************************************************)
SimpleGpsSpeedThreshold == 5

SimpleMoveSpeedThreshold == 10

SimpleMoveDeltaThreshold == 10

SimpleScaleNum == 3

SimpleScaleDen == 2

StuDeclared ==
    [trackUpEnabled |-> FALSE, currentHeading |-> 0, headingWatchId |-> Null,
     lastKnownPosition |-> Null]

updateStatus(text, n) == Status(text, n)

rotateMap(u, d) ==
    IF ~u.trackUpEnabled THEN d
    ELSE LET rotationAngle == -u.currentHeading
             counter == RotateScale(u.currentHeading, SimpleScaleDen, SimpleScaleNum)
         IN [d EXCEPT !.map = SetTransform(@,
                          RotateScale(rotationAngle, SimpleScaleNum, SimpleScaleDen)),
                      \* '.leaflet-control-zoom, .leaflet-control-attribution'
                      !.zoom = SetTransform(@, counter),
                      !.attribution = SetTransform(@, counter)]

\* resetMapRotation of simple_track_up.js
SimpleResetMapRotation(d) ==
    [d EXCEPT !.map = SetTransform(@, None),
              !.zoom = SetTransform(@, None),
              !.attribution = SetTransform(@, None)]

\* id: what watchPosition returns
startTrackUp(u, ws, id) ==
    [stu |-> [u EXCEPT !.headingWatchId = Num(id)],
     status |-> updateStatus("Starting...", 0),
     watches |-> ws \cup {id}]

stopTrackUp(u, d, ws) ==
    LET clear == Truthy(u.headingWatchId)
    IN [stu |-> [u EXCEPT !.headingWatchId = IF clear THEN Null ELSE @],
        watches |-> IF clear THEN ws \ {u.headingWatchId.val} ELSE ws,
        dom |-> SimpleResetMapRotation(d),
        status |-> updateStatus("North Up", 0)]

\* the success callback of startTrackUp's watchPosition
SimpleWatchResult(u, d, s, c) ==
    LET stored == Coords(c.latitude, c.longitude)
        adopt(h, text) ==
            LET u1 == [u EXCEPT !.currentHeading = h]
            IN [stu |-> [u1 EXCEPT !.lastKnownPosition = stored],
                dom |-> rotateMap(u1, d),
                status |-> updateStatus(text, h),
                derived |-> TRUE]
        keep(s1) == [stu |-> [u EXCEPT !.lastKnownPosition = stored],
                     dom |-> d, status |-> s1, derived |-> FALSE]
    IN IF IsValidNumber(c.heading)
       THEN IF SpeedNullOrAbove(c.speed, SimpleGpsSpeedThreshold)
            THEN adopt(c.heading.val, "Heading")
            ELSE keep(s)
       ELSE IF Truthy(u.lastKnownPosition) /\ Truthy(c.speed)
                  /\ c.speed.val > SimpleMoveSpeedThreshold
            THEN LET deltaLat == c.latitude - u.lastKnownPosition.latitude
                     deltaLng == c.longitude - u.lastKnownPosition.longitude
                 IN IF Abs(deltaLat) > SimpleMoveDeltaThreshold
                         \/ Abs(deltaLng) > SimpleMoveDeltaThreshold
                    THEN adopt(JsMod(Atan2Deg(deltaLng, deltaLat) + 360, 360), "Calc")
                    ELSE keep(s)
            ELSE keep(updateStatus("No heading data", 0))

\* the error callback of startTrackUp's watchPosition
SimpleWatchErrorResult(u, d, s, ws) ==
    [stu |-> u, dom |-> d, status |-> updateStatus("GPS Error", 0), watches |-> ws]

(***************************************************************************)
(* The page                                                                *)
(***************************************************************************)
\* track_up_mode.js: after setupTrackUpControls and setupHeadingTracking, which
\* registers the watch; simple_track_up.js: after setupSimpleTrackUp
(***************************************************************************)
(* unnamed/part_000: the direct GPS system                                 *)
(***************************************************************************)
\* the number of window.trackUserLocation calls a behaviour makes
MaxCalls == 2

\* let userLocationMarker = null; let isTrackingLocation = false;
\* let currentUserPosition = null; no request is in flight, no timer pending,
\* no marker on the map, #track-location-btn enabled. A marker is named by
\* the order of its creation; where it is drawn does not matter here
DirectGpsDeclared ==
    [userLocationMarker |-> Null, isTrackingLocation |-> FALSE,
     currentUserPosition |-> Null, btnDisabled |-> FALSE,
     requests |-> 0, markerTimers |-> 0, onMap |-> {}, created |-> 0, calls |-> 0]

\* window.trackUserLocation, up to the getCurrentPosition call
trackUserLocation(g) ==
    LET clear == g.userLocationMarker.kind = "num"
    IN [g EXCEPT !.btnDisabled = TRUE,
                 !.onMap = IF clear THEN @ \ {g.userLocationMarker.val} ELSE @,
                 !.userLocationMarker = IF clear THEN Null ELSE @,
                 !.requests = @ + 1,
                 !.calls = @ + 1]

\* the success callback of getCurrentPosition: stores the position, starts the
\* 200 ms timer that will create the marker, enables the button again
GetPositionSuccessResult(g, p) ==
    [g EXCEPT !.currentUserPosition = Coords(p[1], p[2]),
              !.markerTimers = @ + 1,
              !.btnDisabled = FALSE,
              !.isTrackingLocation = TRUE,
              !.requests = @ - 1]

\* the error callback of getCurrentPosition
GetPositionErrorResult(g) ==
    [g EXCEPT !.btnDisabled = FALSE, !.requests = @ - 1]

\* the setTimeout callback: userLocationMarker = L.circleMarker(...).addTo(map)
\* (the inner timer only calls invalidateSize)
CreateMarkerResult(g) ==
    LET id == g.created + 1
    IN [g EXCEPT !.userLocationMarker = Num(id),
                 !.onMap = @ \cup {id},
                 !.created = id,
                 !.markerTimers = @ - 1]

Init ==
    /\ script \in Scripts
    /\ \E w \in WatchIds :
          /\ tum = IF script = "track_up_mode"
                   THEN [TumDeclared EXCEPT !.watchId = Num(w)] ELSE TumDeclared
          /\ watches = IF script = "track_up_mode" THEN {w} ELSE {}
    /\ stu = StuDeclared
    /\ checked = FALSE
    /\ dom = DomLoaded(TRUE)
    /\ status = Status("", 0)
    /\ timers = {}
    /\ ev = Event("load")
    /\ scenario = 0
    /\ gpsEstablished = FALSE
    /\ gps = DirectGpsDeclared

\* the state after updateTrackUpMode() has run with trackUpMode = c
ModeChanged(c, op) ==
    LET t0 == [tum EXCEPT !.trackUpMode = c]
        ids == IF c /\ tum.headingUpdateInterval.kind = "null"
               THEN TimerIds \ timers ELSE {0}
    IN \E id \in ids :
          LET r == updateTrackUpMode(t0, dom, status, timers, id)
          IN /\ checked' = c
             /\ tum' = r.tum
             /\ dom' = r.dom
             /\ status' = r.status
             /\ timers' = r.timers
             /\ ev' = [Event(op) EXCEPT !.checked = c]
             /\ UNCHANGED <<script, gps, stu, watches, scenario, gpsEstablished>>

\* the 'change' listener of #track-up-toggle
ToggleChange ==
    /\ script = "track_up_mode"
    /\ \E c \in BOOLEAN : ModeChanged(c, "change")

\* window.TrackUpMode.toggle
TrackUpModeToggle ==
    /\ script = "track_up_mode"
    /\ ModeChanged(~checked, "toggle")

WatchPositionSuccess ==
    /\ script = "track_up_mode"
    /\ watches # {}
    /\ \E c \in Samples :
          LET r == WatchPositionResult(tum, dom, status, c)
          IN /\ tum' = r.tum
             /\ dom' = r.dom
             /\ status' = r.status
             /\ ev' = [Event("position") EXCEPT !.heading = c.heading,
                                                !.speed = c.speed,
                                                !.position = Coords(c.latitude, c.longitude),
                                                !.threw = r.threw]
             /\ scenario' = ScenarioStep(scenario, c)
             /\ gpsEstablished' = (gpsEstablished \/ r.established)
    /\ UNCHANGED <<script, gps, stu, checked, watches, timers>>

WatchPositionError ==
    /\ script = "track_up_mode"
    /\ watches # {}
    /\ LET r == WatchErrorResult(tum, dom, status, watches)
       IN /\ tum' = r.tum
          /\ dom' = r.dom
          /\ status' = r.status
          /\ watches' = r.watches
    /\ ev' = Event("error")
    /\ UNCHANGED <<script, gps, stu, checked, timers, scenario, gpsEstablished>>

DeviceOrientation ==
    /\ script = "track_up_mode"
    /\ \E alpha \in AlphaInputs :
          LET r == DeviceOrientationResult(tum, dom, alpha)
          IN /\ tum' = r.tum
             /\ dom' = r.dom
             /\ ev' = [Event("deviceorientation") EXCEPT !.alpha = alpha]
             /\ scenario' = IF CompassApplies(tum, alpha) THEN -1 ELSE scenario
    /\ UNCHANGED <<script, gps, stu, checked, status, watches, timers, gpsEstablished>>

HeadingUpdateTick ==
    /\ script = "track_up_mode"
    /\ timers # {}
    /\ dom' = IntervalResult(tum, dom)
    /\ ev' = Event("tick")
    /\ UNCHANGED <<script, gps, tum, stu, checked, status, watches, timers, scenario, gpsEstablished>>

Cleanup ==
    /\ script = "track_up_mode"
    /\ LET r == CleanupResult(tum, dom, watches, timers)
       IN /\ tum' = r.tum
          /\ dom' = r.dom
          /\ watches' = r.watches
          /\ timers' = r.timers
    /\ ev' = Event("cleanup")
    /\ UNCHANGED <<script, gps, stu, checked, status, scenario, gpsEstablished>>

\* the map draws a default marker icon ("default markers that might appear")
MarkerAppears ==
    /\ ~dom.markerPresent
    /\ dom' = [dom EXCEPT !.markerPresent = TRUE, !.marker = Unset]
    /\ ev' = Event("marker")
    /\ UNCHANGED <<script, gps, tum, stu, checked, status, watches, timers, scenario, gpsEstablished>>

\* the 'change' listener simple_track_up.js adds to #track-up-toggle
SimpleToggleChange ==
    /\ script = "simple_track_up"
    /\ \E c \in BOOLEAN :
          /\ checked' = c
          /\ ev' = [Event("change") EXCEPT !.checked = c]
          /\ IF c
             THEN \E id \in WatchIds \ watches :
                     LET r == startTrackUp([stu EXCEPT !.trackUpEnabled = c], watches, id)
                     IN /\ stu' = r.stu
                        /\ status' = r.status
                        /\ watches' = r.watches
                        /\ dom' = dom
             ELSE LET r == stopTrackUp([stu EXCEPT !.trackUpEnabled = c], dom, watches)
                  IN /\ stu' = r.stu
                     /\ status' = r.status
                     /\ watches' = r.watches
                     /\ dom' = r.dom
    /\ UNCHANGED <<script, gps, tum, timers, scenario, gpsEstablished>>

SimpleWatchSuccess ==
    /\ script = "simple_track_up"
    /\ watches # {}
    /\ \E c \in Samples :
          LET r == SimpleWatchResult(stu, dom, status, c)
          IN /\ stu' = r.stu
             /\ dom' = r.dom
             /\ status' = r.status
             /\ ev' = [Event("position") EXCEPT !.heading = c.heading,
                                                !.speed = c.speed,
                                                !.position = Coords(c.latitude, c.longitude)]
             /\ scenario' = ScenarioStep(scenario, c)
             /\ gpsEstablished' = (gpsEstablished \/ r.derived)
    /\ UNCHANGED <<script, gps, tum, checked, watches, timers>>

SimpleWatchError ==
    /\ script = "simple_track_up"
    /\ watches # {}
    /\ LET r == SimpleWatchErrorResult(stu, dom, status, watches)
       IN /\ stu' = r.stu
          /\ dom' = r.dom
          /\ status' = r.status
          /\ watches' = r.watches
    /\ ev' = Event("error")
    /\ UNCHANGED <<script, gps, tum, checked, timers, scenario, gpsEstablished>>

\* a click on #track-location-btn, which is enabled
TrackUserLocation ==
    /\ script = "direct_gps"
    /\ ~gps.btnDisabled
    /\ gps.calls < MaxCalls
    /\ gps' = trackUserLocation(gps)
    /\ ev' = Event("trackUserLocation")
    /\ UNCHANGED <<script, tum, stu, checked, dom, status, watches, timers, scenario,
                   gpsEstablished>>

GetPositionSuccess ==
    /\ script = "direct_gps"
    /\ gps.requests > 0
    /\ \E p \in Positions :
          /\ gps' = GetPositionSuccessResult(gps, p)
          /\ ev' = [Event("located") EXCEPT !.position = Coords(p[1], p[2])]
    /\ UNCHANGED <<script, tum, stu, checked, dom, status, watches, timers, scenario,
                   gpsEstablished>>

GetPositionError ==
    /\ script = "direct_gps"
    /\ gps.requests > 0
    /\ gps' = GetPositionErrorResult(gps)
    /\ ev' = Event("locationError")
    /\ UNCHANGED <<script, tum, stu, checked, dom, status, watches, timers, scenario,
                   gpsEstablished>>

\* a marker-creation timer fires
CreateMarker ==
    /\ script = "direct_gps"
    /\ gps.markerTimers > 0
    /\ gps' = CreateMarkerResult(gps)
    /\ ev' = Event("createMarker")
    /\ UNCHANGED <<script, tum, stu, checked, dom, status, watches, timers, scenario,
                   gpsEstablished>>

Next ==
    \/ ToggleChange
    \/ TrackUpModeToggle
    \/ WatchPositionSuccess
    \/ WatchPositionError
    \/ DeviceOrientation
    \/ HeadingUpdateTick
    \/ Cleanup
    \/ MarkerAppears
    \/ SimpleToggleChange
    \/ SimpleWatchSuccess
    \/ SimpleWatchError
    \/ TrackUserLocation
    \/ GetPositionSuccess
    \/ GetPositionError
    \/ CreateMarker

Spec == Init /\ [][Next]_vars

(***************************************************************************)
(* Properties                                                              *)
(***************************************************************************)
\* the committed heading of the loaded script
CurrentHeading ==
    IF script = "track_up_mode" THEN tum.currentHeading ELSE stu.currentHeading

\* the speed of a sample lets the loaded script adopt its direct heading
MovingFor(speed) ==
    \/ speed.kind = "null"
    \/ speed.kind = "num" /\ script = "track_up_mode" /\ speed.val > GpsSpeedThreshold
    \/ speed.kind = "num" /\ script = "simple_track_up"
          /\ speed.val > SimpleGpsSpeedThreshold

\* the event is the toggle being turned off
IsDisable(e) == e.op \in {"change", "toggle"} /\ ~e.checked

\* the surface and every overlay element of the page are drawn unrotated, unscaled
AllIdentity(d) ==
    /\ IsIdentity(d.map)
    /\ IsIdentity(d.zoom)
    /\ IsIdentity(d.attribution)
    /\ IsIdentity(d.custom)
    /\ IsIdentity(d.popup)
    /\ d.markerPresent => IsIdentity(d.marker)

\* the event is the toggle being turned on
IsEnable(e) == e.op \in {"change", "toggle"} /\ e.checked

\* Track Up is enabled in the loaded script
ModeOn == IF script = "track_up_mode" THEN tum.trackUpMode ELSE stu.trackUpEnabled

\* the overlay elements the loaded script counter-rotates, as they are on the page
CounterRotatedSet ==
    IF script = "track_up_mode"
    THEN {"zoom", "attribution", "custom"} \cup (IF dom.markerPresent THEN {"marker"} ELSE {})
    ELSE {"zoom", "attribution"}

\* an element with transform b inside a surface with transform a is drawn with
\* the rotations added and the scales multiplied
Compose(a, b) == RotateScale(a.rot + b.rot, a.num * b.num, a.den * b.den)

\* the angle the surface is drawn at
SurfaceRotation(d) == IF d.map.kind = "rotate" THEN d.map.rot ELSE 0

\* the surface is drawn turned by the negated committed heading
SurfaceFollowsHeading == (SurfaceRotation(dom) + CurrentHeading) % 360 = 0

\* the step ran updateMapRotation / rotateMap past its guard
RotationApplied ==
    \/ /\ script = "track_up_mode"
       /\ \/ IsEnable(ev')
          \/ ev'.op = "tick" /\ tum.trackUpMode
          \/ ev'.op = "deviceorientation" /\ CompassApplies(tum, ev'.alpha)
          \/ ev'.op = "position" /\ tum.trackUpMode
                /\ tum'.currentHeading # tum.currentHeading
    \/ /\ script = "simple_track_up"
       /\ ev'.op = "position" /\ stu.trackUpEnabled
       /\ \/ ev'.heading.kind = "num" /\ MovingFor(ev'.speed)
          \/ ev'.heading.kind # "num" /\ stu'.currentHeading # stu.currentHeading

\* C1: a position sample whose new heading is within 3 degrees of the committed
\* heading leaves the committed heading and every transform as they were, and a
\* sample changes the committed heading only by more than 3 degrees
C1_JitterGate ==
    [][ev'.op = "position" =>
          /\ (ev'.heading.kind = "num" /\ MovingFor(ev'.speed)
                /\ Abs(ev'.heading.val - CurrentHeading) <= 3)
             => (CurrentHeading' = CurrentHeading /\ dom' = dom)
          /\ CurrentHeading' # CurrentHeading
             => Abs(CurrentHeading' - CurrentHeading) > 3]_vars

\* C2: after the samples 10, 11, 50 at 2.0 m/s from the initial state the
\* committed headings are 10, 10, 50
C2_ScenarioCommitted ==
    /\ scenario = 1 => CurrentHeading = 10
    /\ scenario = 2 => CurrentHeading = 10
    /\ scenario = 3 => CurrentHeading = 50

\* C3: a sample with a valid direct heading, at unknown speed or above the
\* movement threshold, caches that heading and, past the jitter gate, commits
\* exactly it, whatever the positions are
C3_DirectHeadingAdopted ==
    [][(ev'.op = "position" /\ ev'.heading.kind = "num" /\ MovingFor(ev'.speed)) =>
          /\ script = "track_up_mode" =>
                /\ tum'.lastValidHeading = ev'.heading.val
                /\ Abs(ev'.heading.val - tum.currentHeading) > 3
                   => tum'.currentHeading = ev'.heading.val
          /\ script = "simple_track_up" =>
                stu'.currentHeading = ev'.heading.val]_vars

C3_Witness ==
    /\ script = "track_up_mode"
    /\ ev.op = "position" /\ ev.heading = Num(50) /\ ev.speed = Num(4)
    /\ tum.currentHeading = 50 /\ tum.lastValidHeading = 50

\* C4: once a position sample has established a GPS heading, no orientation
\* event changes the committed heading
C4_CompassNeverOverridesGps ==
    [][(ev'.op = "deviceorientation" /\ gpsEstablished)
          => tum'.currentHeading = tum.currentHeading]_vars

\* C5: the committed heading is always in [0, 360)
C5_HeadingInRange == CurrentHeading >= 0 /\ CurrentHeading < 360

\* C6: the error callback sets the status to "GPS Error" and leaves the
\* committed heading, the last valid heading, the mode and the transforms alone
C6_ErrorKeepsHeading ==
    [][ev'.op = "error" =>
          /\ status' = Status("GPS Error", 0)
          /\ tum'.currentHeading = tum.currentHeading
          /\ tum'.lastValidHeading = tum.lastValidHeading
          /\ tum'.trackUpMode = tum.trackUpMode
          /\ stu'.currentHeading = stu.currentHeading
          /\ stu'.trackUpEnabled = stu.trackUpEnabled
          /\ dom' = dom]_vars

C6_Witness ==
    /\ ev.op = "error"
    /\ status = Status("GPS Error", 0)
    /\ script = "track_up_mode" /\ tum.trackUpMode /\ tum.currentHeading = 80
    /\ dom.map = RotateScale(-80, ScaleNum, ScaleDen)

\* C7: an error callback cancels no watch, and every sample is processed after
\* it as it would have been before it: same module state, same transforms
C7_ErrorKeepsWatch ==
    [][ev'.op = "error" =>
          /\ watches' = watches /\ watches' # {}
          /\ tum'.watchId = tum.watchId
          /\ stu'.headingWatchId = stu.headingWatchId
          /\ \A c \in Samples :
                /\ script = "track_up_mode" =>
                      LET after == WatchPositionResult(tum', dom', status', c)
                          before == WatchPositionResult(tum, dom, status, c)
                      IN after.tum = before.tum /\ after.dom = before.dom
                /\ script = "simple_track_up" =>
                      LET after == SimpleWatchResult(stu', dom', status', c)
                          before == SimpleWatchResult(stu, dom, status, c)
                      IN after.stu = before.stu /\ after.dom = before.dom]_vars

\* a sample was committed while the status still shows the earlier error
C7_Witness ==
    /\ script = "track_up_mode"
    /\ ev.op = "position" /\ ev.heading = Num(80)
    /\ status = Status("GPS Error", 0)
    /\ tum.currentHeading = 80
    /\ tum.watchId.kind = "num" /\ tum.watchId.val \in watches

\* C8: after the toggle is turned off the surface and every overlay element that
\* is counter-rotated while enabled have an identity transform
C8_DisableRestoresIdentity ==
    IsDisable(ev) =>
        /\ IsIdentity(dom.map)
        /\ IsIdentity(dom.zoom)
        /\ IsIdentity(dom.attribution)
        /\ IsIdentity(dom.custom)
        /\ dom.markerPresent => IsIdentity(dom.marker)

C10_CustomIndicatorExempt == IsIdentity(dom.custom)

\* C11: a rotation update with committed heading h sets the surface to rotation
\* -h with a scale above 1 and every element of the counter-rotated set to
\* rotation +h with the inverse scale, so that surface and overlay compose to
\* the identity
C11_RotationAndCounterRotation ==
    [][RotationApplied =>
          LET h == CurrentHeading'
              surface == dom'.map
          IN /\ surface.kind = "rotate" /\ surface.rot = -h
             /\ surface.num > surface.den
             /\ \A o \in CounterRotatedSet' :
                   /\ dom'[o].kind = "rotate" /\ dom'[o].rot = h
                   /\ dom'[o].num = surface.den /\ dom'[o].den = surface.num
                   /\ IsIdentity(Compose(surface, dom'[o]))]_vars

\* a committed sample rotated the surface and a marker icon that is on the page
C11_Witness ==
    /\ script = "track_up_mode"
    /\ ev.op = "position" /\ ev.heading = Num(50)
    /\ tum.trackUpMode /\ tum.currentHeading = 50
    /\ dom.map = RotateScale(-50, ScaleNum, ScaleDen)
    /\ dom.markerPresent /\ dom.marker = RotateScale(50, ScaleDen, ScaleNum)

\* C12: right after the toggle is turned on the surface is rotated by the
\* negated committed heading, and right after it is turned off the surface has
\* an identity transform
C12_ToggleTransitions ==
    /\ IsEnable(ev) => SurfaceFollowsHeading
    /\ IsDisable(ev) => IsIdentity(dom.map)

\* the event is the heading subscription being cancelled: TrackUpMode.cleanup,
\* or stopTrackUp run by the toggle of simple_track_up.js
IsCancel(e) == e.op = "cleanup" \/ (script = "simple_track_up" /\ IsDisable(e))

\* C13: right after the heading subscription is cancelled no timer runs, no
\* position watch is registered, and the surface and every overlay have an
\* identity transform
C13_CancelStopsEverything ==
    IsCancel(ev) => (timers = {} /\ watches = {} /\ AllIdentity(dom))

\* the step is a position sample, a timer tick or an orientation event
\* arriving while Track Up is off
SensorEventWhileOff ==
    ~ModeOn /\ ev'.op \in {"position", "tick", "deviceorientation"}

\* C14: while the mode is off a position sample, a timer tick or an
\* orientation event changes no transform, and the surface and the overlays
\* are at identity after it
C14_ModeGatesDisplay ==
    [][SensorEventWhileOff => (dom' = dom /\ AllIdentity(dom'))]_vars

\* C15: turning the toggle on or off (which applies or resets the rotation), a
\* timer tick and cleanup leave the committed heading, the last valid heading
\* and the last position as they were
C15_ApplierKeepsHeadingState ==
    [][ev'.op \in {"change", "toggle", "tick", "cleanup"} =>
          /\ tum'.currentHeading = tum.currentHeading
          /\ tum'.lastValidHeading = tum.lastValidHeading
          /\ tum'.lastPosition = tum.lastPosition
          /\ stu'.currentHeading = stu.currentHeading
          /\ stu'.lastKnownPosition = stu.lastKnownPosition]_vars

\* the toggle was turned on with a heading of 80 committed earlier, and the
\* rotation for it was applied
C15_Witness ==
    /\ script = "track_up_mode"
    /\ IsEnable(ev)
    /\ tum.currentHeading = 80 /\ tum.lastValidHeading = 80
    /\ dom.map = RotateScale(-80, ScaleNum, ScaleDen)

\* the sample of the step has a direct heading the loaded script adopts
DirectAdopted == ev'.heading.kind = "num" /\ MovingFor(ev'.speed)

\* the position the loaded script has stored from an earlier sample
PreviousPosition ==
    IF script = "track_up_mode" THEN tum.lastPosition ELSE stu.lastKnownPosition

\* the sample of the step passes the tests of Method 2: no direct heading, a
\* stored position, enough speed and enough movement
MovementBearingComputed ==
    /\ ev'.heading.kind # "num"
    /\ Truthy(PreviousPosition)
    /\ IF script = "track_up_mode"
       THEN SpeedNullOrAbove(ev'.speed, MoveSpeedThreshold)
       ELSE Truthy(ev'.speed) /\ ev'.speed.val > SimpleMoveSpeedThreshold
    /\ LET deltaLat == ev'.position.latitude - PreviousPosition.latitude
           deltaLng == ev'.position.longitude - PreviousPosition.longitude
           threshold == IF script = "track_up_mode" THEN MoveDeltaThreshold
                                                    ELSE SimpleMoveDeltaThreshold
       IN Abs(deltaLat) > threshold \/ Abs(deltaLng) > threshold

AboveMovementThreshold ==
    /\ ev'.speed.kind = "num"
    /\ ev'.speed.val > (IF script = "track_up_mode" THEN MoveSpeedThreshold
                                                    ELSE SimpleMoveSpeedThreshold)

\* the sample of the step is further from the sample before it than the
\* loaded script's threshold for significant movement
MovedSincePreviousSample ==
    LET threshold == IF script = "track_up_mode" THEN MoveDeltaThreshold
                                                 ELSE SimpleMoveDeltaThreshold
    IN \/ Abs(ev'.position.latitude - ev.position.latitude) > threshold
       \/ Abs(ev'.position.longitude - ev.position.longitude) > threshold

\* C17: a sample without a direct heading, following another sample and faster
\* than the movement threshold, commits the spherical bearing from the previous
\* sample's coordinates to its own, normalized into [0, 360), past the jitter
\* gate where there is one
C17_MovementBearing ==
    [][(ev.op = "position" /\ ev'.op = "position" /\ ev'.heading.kind # "num"
           /\ AboveMovementThreshold /\ MovedSincePreviousSample) =>
          LET bearing == JsMod(Bearing(ev.position.latitude, ev.position.longitude,
                                       ev'.position.latitude, ev'.position.longitude)
                                  + 360, 360)
          IN /\ script = "track_up_mode" =>
                   (JitterGate(bearing, tum.currentHeading)
                       => tum'.currentHeading = bearing)
             /\ script = "simple_track_up" => stu'.currentHeading = bearing]_vars

\* C18: when the toggle is turned on right after it was turned off, the
\* committed heading is 0 again and no position of the earlier activation is
\* stored
C18_ActivationScopedState ==
    [][(IsDisable(ev) /\ IsEnable(ev'))
          => (CurrentHeading' = 0 /\ ~Truthy(PreviousPosition'))]_vars

\* the angular distance between two headings, around the circle
CircularDistance(a, b) ==
    LET d == Abs(a - b) % 360
    IN IF d > 180 THEN 360 - d ELSE d

\* C19: a sample whose direct heading is within 3 degrees of the committed
\* heading around the circle, across north included, changes neither the
\* committed heading nor any transform
C19_CircularJitterGate ==
    [][(script = "track_up_mode" /\ ev'.op = "position" /\ ev'.heading.kind = "num"
           /\ CircularDistance(ev'.heading.val, tum.currentHeading) <= JitterThreshold)
          => (tum'.currentHeading = tum.currentHeading /\ dom' = dom)]_vars

\* C20: whenever Track Up is enabled the surface is rotated by the negated
\* committed heading
C20_DisplayFollowsHeading == ModeOn => SurfaceFollowsHeading

\* C21: in track_up_mode.js at most one interval runs, and one runs exactly
\* when Track Up mode is enabled
C21_OneTimerWhileEnabled ==
    script = "track_up_mode" =>
        /\ Cardinality(timers) <= 1
        /\ (timers # {}) <=> tum.trackUpMode

\* C22: in track_up_mode.js a position sample, a timer tick or an orientation
\* event that follows cleanup leaves the surface with an identity transform
C22_CleanupStaysNorthUp ==
    [][(script = "track_up_mode" /\ ev.op = "cleanup"
           /\ ev'.op \in {"position", "tick", "deviceorientation"})
          => IsIdentity(dom'.map)]_vars

\* C23: in simple_track_up.js at most one position watch is registered at a
\* time, and none is registered right after the toggle was turned off
C23_OneWatchAtATime ==
    script = "simple_track_up" =>
        /\ Cardinality(watches) <= 1
        /\ IsDisable(ev) => watches = {}

\* C24: right after a position sample the callback has raised no error and
\* the stored previous position is that sample's coordinates
C24_SampleStoresPosition ==
    ev.op = "position" => (~ev.threw /\ PreviousPosition = ev.position)

\* C25: turning the toggle off sets the status to "North Up", and a position
\* sample that arrives while Track Up is off and the status reads "North Up"
\* leaves the status as it is
C25_StatusOnlyWhileEnabled ==
    [][/\ IsDisable(ev') => status' = Status("North Up", 0)
       /\ (ev'.op = "position" /\ ~ModeOn /\ status = Status("North Up", 0))
             => status' = status]_vars

\* C26: in the direct GPS module at most one user-location marker is on the
\* map, and userLocationMarker refers to the marker that is on the map
C26_OneUserLocationMarker ==
    script = "direct_gps" =>
        /\ Cardinality(gps.onMap) <= 1
        /\ \A m \in gps.onMap : gps.userLocationMarker = Num(m)

====
